---- MODULE Spec2Model ----
(***************************************************************************)
(* Order-to-video generation pipeline of the cinetour backend:             *)
(* app/routers/upload.py, app/routers/admin.py, app/routers/Client.py,     *)
(* app/services/prompt_generator.py.                                       *)
(*                                                                         *)
(* The tables orders, uploaded_images, videos, feedback, notifications and *)
(* final_videos are sequences of rows; a row's id is its index.  A row     *)
(* holds the columns the handlers read and write.  A NULL column is the    *)
(* string NULL, a NULL id is 0.                                            *)
(***************************************************************************)
EXTENDS Integers, Sequences, FiniteSets, TLC

\* ------------------------------------------------------------- bounds
MaxOrders == 2
MaxFiles == 2
MaxTotalFiles == 2
MaxWorkflowFiles == 1
MaxWorkflowOrders == 2
MaxUsers == 1
MaxRequests == 2

\* ------------------------------------------------------------- values
NULL == "NULL"
NoId == 0

Filenames == {"a.jpg", "b.jpg"}
\* What Image.open finds in a file: a picture with w >= h, one with w < h,
\* or bytes that are no picture.
Contents == {"wide", "tall", "square", "corrupt"}
Users == 1..MaxUsers

PACKAGE_LIMITS ==
  [Starter |-> <<5, 10>>, Professional |-> <<11, 20>>, Premium |-> <<21, 30>>]

\* the package names a request may carry: a known one and an unknown one
PackageInputs == {"Starter", "Basic"}

\* what the uploads carry when every workflow runs (Spec)
WorkflowPackages == {"Starter"}
WorkflowFilenames == {"a.jpg"}
WorkflowContents == {"wide", "corrupt"}

\* what the requests carry
FeedbackTexts == {"  ", "make it brighter"}
PromptInputs == {"", "  ", "sunset pan"}
StatusInputs == {"completed", "Completed", "pending", "processing", "failed", "", "archived"}

FallbackPrompt == "fallback"
PromptTexts == {"cinematic", FallbackPrompt}

VARIABLES
  USE_MOCK_RUNWAY,   \* upload.py:33, read once at import
  disk,              \* IMAGES_DIR: filename -> content, NULL when absent
  uploads,           \* the filenames present in uploads/
  orders, images, videos, feedback, notifications, final_videos,
  bg,                \* the background task of each order (process_videos_for_order)
  providerCalls,     \* calls of client.image_to_video.create made so far
  response,          \* what the last request answered
  requests,          \* admin and feedback requests made so far
  gv                 \* the call of generate_video (runway_service.py) under way

vars == <<USE_MOCK_RUNWAY, disk, uploads, orders, images, videos, feedback,
          notifications, final_videos, bg, providerCalls, response, requests, gv>>

tables == <<orders, images, videos, feedback, notifications, final_videos>>

\* ------------------------------------------------------------- rows
Order(user_id, package, parent) ==
  [user_id |-> user_id, package |-> package, parent_order_id |-> parent]

UploadedImage(order_id, filename, content) ==
  [order_id |-> order_id, filename |-> filename, content |-> content,
   prompt |-> NULL, video_path |-> NULL, video_url |-> NULL,
   video_generated_at |-> NULL]

Video(image_id, prompt, job, status, url, path, parent, iteration) ==
  [image_id |-> image_id, prompt |-> prompt, runway_job_id |-> job,
   status |-> status, video_url |-> url, video_path |-> path,
   parent_video_id |-> parent, iteration |-> iteration]

Feedback(video_id, text, new_prompt) ==
  [video_id |-> video_id, feedback_text |-> text, new_prompt |-> new_prompt]

Notification(user_id, type, video_id, order_id) ==
  [user_id |-> user_id, type |-> type, video_id |-> video_id, order_id |-> order_id]

\* the task's locals; BgNone for an order that has no background task
BgNone ==
  [pc |-> "none", files |-> <<>>, i |-> 0, img |-> NoId, ratio |-> NULL,
   prompt_text |-> NULL, video_url |-> NULL, vid |-> NoId]

Now == "ts"

\* ------------------------------------------------------------- helpers
RECURSIVE SaveAll(_, _)
\* upload_photos' loop: each file is written to IMAGES_DIR/<filename>, a later
\* file of the same name overwrites an earlier one
SaveAll(d, files) ==
  IF files = <<>> THEN d
  ELSE SaveAll([d EXCEPT ![Head(files).filename] = Head(files).content], Tail(files))

RECURSIVE Paths(_)
Paths(files) ==
  IF files = <<>> THEN <<>> ELSE <<Head(files).filename>> \o Paths(Tail(files))

Batches(names, contents, max) ==
  UNION {[1..n -> [filename : names, content : contents]] : n \in 0..max}

RECURSIVE ScheduledFiles(_)
\* the files handed to background tasks so far
ScheduledFiles(tasks) ==
  IF tasks = <<>> THEN 0 ELSE Len(Head(tasks).files) + ScheduledFiles(Tail(tasks))

\* the image rows of the orders made by create_new_order
ClientImages == Cardinality({i \in DOMAIN images : bg[images[i].order_id].pc = "none"})

\* the files received so far
TotalFiles == ScheduledFiles(bg) + ClientImages

\* Image.open(src_path) succeeds
Opens(path) == disk[path] \notin {NULL, "corrupt"}

\* ------------------------------------------------------------- upload_photos
\* upload_photos committing the image rows itself, before it answers
upload_photos_inline(package, files) ==
  /\ Len(orders) < MaxOrders
  /\ TotalFiles + Len(files) <= MaxTotalFiles
  /\ orders' = Append(orders, Order(NoId, package, NoId))
  /\ disk' = SaveAll(disk, files)
  /\ images' = images \o [j \in 1..Len(files) |->
                            UploadedImage(Len(orders) + 1, files[j].filename,
                                          files[j].content)]
  /\ bg' = Append(bg, [BgNone EXCEPT !.pc = "scheduled", !.files = Paths(files)])
  /\ response' = [op |-> "upload_photos", code |-> 200]
  /\ UNCHANGED <<USE_MOCK_RUNWAY, gv, uploads, videos, feedback, notifications,
                 final_videos, providerCalls, requests>>

upload_photos(package, files) ==
  /\ Len(orders) < MaxOrders
  /\ TotalFiles + Len(files) <= MaxTotalFiles
  /\ orders' = Append(orders, Order(NoId, package, NoId))
  /\ disk' = SaveAll(disk, files)
  /\ bg' = Append(bg, [BgNone EXCEPT !.pc = "scheduled", !.files = Paths(files)])
  /\ response' = [op |-> "upload_photos", code |-> 200]
  /\ UNCHANGED <<USE_MOCK_RUNWAY, gv, uploads, images, videos, feedback, notifications,
                 final_videos, providerCalls, requests>>

\* ------------------------------------------------------------- process_videos_for_order
\* the task starts: the order is looked up, the loop begins
process_start(o) ==
  /\ bg[o].pc = "scheduled"
  /\ bg' = [bg EXCEPT ![o].pc = "loop", ![o].i = 1]
  /\ UNCHANGED <<USE_MOCK_RUNWAY, gv, disk, uploads, tables, providerCalls, response, requests>>

\* the loop is over
process_finish(o) ==
  /\ bg[o].pc = "loop"
  /\ bg[o].i > Len(bg[o].files)
  /\ bg' = [bg EXCEPT ![o] = [BgNone EXCEPT !.pc = "done", !.files = bg[o].files,
                                             !.i = bg[o].i]]
  /\ UNCHANGED <<USE_MOCK_RUNWAY, gv, disk, uploads, tables, providerCalls, response, requests>>

\* process_skip with break in place of continue: an unreadable file ends the loop
process_skip_break(o) ==
  /\ bg[o].pc = "loop"
  /\ bg[o].i <= Len(bg[o].files)
  /\ ~Opens(bg[o].files[bg[o].i])
  /\ bg' = [bg EXCEPT ![o].pc = "done"]
  /\ UNCHANGED <<USE_MOCK_RUNWAY, gv, disk, uploads, tables, providerCalls, response, requests>>

\* process_skip that records the file it could not open
process_skip_keeps_row(o) ==
  /\ bg[o].pc = "loop"
  /\ bg[o].i <= Len(bg[o].files)
  /\ ~Opens(bg[o].files[bg[o].i])
  /\ images' = Append(images, UploadedImage(o, bg[o].files[bg[o].i], NULL))
  /\ bg' = [bg EXCEPT ![o].i = @ + 1]
  /\ UNCHANGED <<USE_MOCK_RUNWAY, gv, disk, uploads, orders, videos, feedback, notifications,
                 final_videos, providerCalls, response, requests>>

\* Image.open fails: continue with the next file
process_skip(o) ==
  /\ bg[o].pc = "loop"
  /\ bg[o].i <= Len(bg[o].files)
  /\ ~Opens(bg[o].files[bg[o].i])
  /\ bg' = [bg EXCEPT ![o].i = @ + 1]
  /\ UNCHANGED <<USE_MOCK_RUNWAY, gv, disk, uploads, tables, providerCalls, response, requests>>

\* im.size of the image the bytes hold (line 167)
Size(content) ==
  IF content = "wide" THEN [w |-> 2, h |-> 1]
  ELSE IF content = "tall" THEN [w |-> 1, h |-> 2]
  ELSE [w |-> 1, h |-> 1]

\* the choice of line 192 with a strict comparison: a square image is portrait
AspectRatioStrict(w, h) == IF w > h THEN "1280:720" ELSE "720:1280"

\* line 192 (and line 364 of submit_feedback)
AspectRatio(w, h) == IF w >= h THEN "1280:720" ELSE "720:1280"

\* process_image walking the batch from its end
process_image_reversed(o) ==
  /\ bg[o].pc = "loop"
  /\ bg[o].i <= Len(bg[o].files)
  /\ LET path == bg[o].files[Len(bg[o].files) + 1 - bg[o].i] IN
       /\ Opens(path)
       /\ images' = Append(images, UploadedImage(o, path, disk[path]))
       /\ bg' = [bg EXCEPT ![o].pc = "prompt", ![o].img = Len(images) + 1,
                           ![o].ratio = AspectRatio(Size(disk[path]).w,
                                                    Size(disk[path]).h)]
  /\ UNCHANGED <<USE_MOCK_RUNWAY, gv, disk, uploads, orders, videos, feedback, notifications,
                 final_videos, providerCalls, response, requests>>

\* the file opens: its bytes are read and the UploadedImage row is committed
process_image(o) ==
  /\ bg[o].pc = "loop"
  /\ bg[o].i <= Len(bg[o].files)
  /\ LET path == bg[o].files[bg[o].i] IN
       /\ Opens(path)
       /\ images' = Append(images, UploadedImage(o, path, disk[path]))
       /\ bg' = [bg EXCEPT ![o].pc = "prompt", ![o].img = Len(images) + 1,
                           ![o].ratio = AspectRatio(Size(disk[path]).w,
                                                    Size(disk[path]).h)]
  /\ UNCHANGED <<USE_MOCK_RUNWAY, gv, disk, uploads, orders, videos, feedback, notifications,
                 final_videos, providerCalls, response, requests>>

\* prompt_generator.py:23-77: RuntimeError without credentials (line 31), the
\* error of open() for a file that cannot be read (line 35, outside the try),
\* else the model's text, or the fallback when the model call fails
generate_cinematic_prompt_from_image(credentials, readable, model_ok) ==
  IF ~credentials \/ ~readable
  THEN [raised |-> TRUE, text |-> NULL]
  ELSE [raised |-> FALSE, text |-> IF model_ok THEN "cinematic" ELSE FallbackPrompt]

\* process_prompt keeping the prompt in the local variable only: the image row
\* is not written before the generation
process_prompt_local(o) ==
  /\ bg[o].pc = "prompt"
  /\ \E p \in PromptTexts :
       bg' = [bg EXCEPT ![o].pc = "generate", ![o].prompt_text = p]
  /\ UNCHANGED <<USE_MOCK_RUNWAY, gv, disk, uploads, tables, providerCalls, response, requests>>

\* generate_cinematic_prompt_from_image answers the model's text or its fallback;
\* the prompt is committed on the image row
process_prompt(o) ==
  /\ bg[o].pc = "prompt"
  /\ \E p \in PromptTexts :
       /\ images' = [images EXCEPT ![bg[o].img].prompt = p]
       /\ bg' = [bg EXCEPT ![o].pc = "generate", ![o].prompt_text = p]
  /\ UNCHANGED <<USE_MOCK_RUNWAY, gv, disk, uploads, orders, videos, feedback, notifications,
                 final_videos, providerCalls, response, requests>>

\* upload_video_to_dropbox with its result not looked at: the transfer counts
\* as done
upload_video_to_dropbox_ignored(transfer_ok) == TRUE

\* upload_video_to_dropbox: True when the download and the upload went through,
\* False on any error
upload_video_to_dropbox(transfer_ok) == transfer_ok

\* GenerationResult with the mock switch ignored: the provider is called anyway
GenerationResultIgnoringMock(mock, img_id, outcome, transfer_ok) ==
  IF outcome = "output"
  THEN IF transfer_ok
       THEN [status |-> "succeeded",
             video_url |-> "dropbox:///videos/video_" \o ToString(img_id) \o ".mp4",
             task_id |-> "task"]
       ELSE [status |-> "failed", video_url |-> NULL, task_id |-> "task"]
  ELSE [status |-> "failed", video_url |-> NULL, task_id |-> NULL]

\* lines 198-230: what the generation of one image yields.
\* outcome: "output" (the task returned a video), "no_output" (task.output is
\* empty), "error" (create or wait_for_task_output raised)
GenerationResult(mock, img_id, outcome, transfer_ok) ==
  IF mock
  THEN [status |-> "succeeded", video_url |-> NULL, task_id |-> "mock-job"]
  ELSE IF outcome = "output"
       THEN IF upload_video_to_dropbox(transfer_ok)
            THEN [status |-> "succeeded",
                  video_url |-> "dropbox:///videos/video_" \o ToString(img_id) \o ".mp4",
                  task_id |-> "task"]
            ELSE [status |-> "failed", video_url |-> NULL, task_id |-> "task"]
       ELSE [status |-> "failed", video_url |-> NULL, task_id |-> NULL]

ProviderOutcomes == {"output", "no_output", "error"}

\* the generation (mock or live) and the commit of the iteration-1 Video row
process_generate(o) ==
  /\ bg[o].pc = "generate"
  /\ \E outcome \in ProviderOutcomes, transfer_ok \in BOOLEAN :
       LET r == GenerationResult(USE_MOCK_RUNWAY, bg[o].img, outcome, transfer_ok) IN
         /\ videos' = Append(videos, Video(bg[o].img, bg[o].prompt_text, r.task_id,
                                           r.status, r.video_url, NULL, NoId, 1))
         /\ bg' = [bg EXCEPT ![o].pc = "mirror", ![o].video_url = r.video_url,
                             ![o].vid = Len(videos) + 1]
  /\ providerCalls' = IF USE_MOCK_RUNWAY THEN providerCalls ELSE providerCalls + 1
  /\ UNCHANGED <<USE_MOCK_RUNWAY, gv, disk, uploads, orders, images, feedback, notifications,
                 final_videos, response, requests>>

\* lines 246-249 writing the timestamp only
MirrorOntoImageTimestampOnly(img_row, video_url) ==
  [img_row EXCEPT !.video_generated_at = Now]

\* lines 246-249: the image row is updated with the video info
MirrorOntoImage(img_row, video_url) ==
  [img_row EXCEPT !.video_url = video_url, !.video_generated_at = Now]

\* process_mirror writing onto the newest image row of the table
process_mirror_newest(o) ==
  /\ bg[o].pc = "mirror"
  /\ images' = [images EXCEPT ![Len(images)] = MirrorOntoImage(@, bg[o].video_url)]
  /\ bg' = [bg EXCEPT ![o].pc = "notify"]
  /\ UNCHANGED <<USE_MOCK_RUNWAY, gv, disk, uploads, orders, videos, feedback, notifications,
                 final_videos, providerCalls, response, requests>>

process_mirror(o) ==
  /\ bg[o].pc = "mirror"
  /\ images' = [images EXCEPT ![bg[o].img] = MirrorOntoImage(@, bg[o].video_url)]
  /\ bg' = [bg EXCEPT ![o].pc = "notify"]
  /\ UNCHANGED <<USE_MOCK_RUNWAY, gv, disk, uploads, orders, videos, feedback, notifications,
                 final_videos, providerCalls, response, requests>>

create_notification(user_id, type, video_id, order_id) ==
  notifications' = Append(notifications, Notification(user_id, type, video_id, order_id))

\* process_notify with a failed generation ending the task
process_notify_abort(o) ==
  /\ bg[o].pc = "notify"
  /\ IF videos[bg[o].vid].status = "succeeded"
     THEN /\ notifications' = Append(notifications,
                 Notification(orders[o].user_id, "video_created", bg[o].vid, o))
          /\ bg' = [bg EXCEPT ![o] = [BgNone EXCEPT !.pc = "loop", !.files = bg[o].files,
                                                  !.i = bg[o].i + 1]]
     ELSE /\ UNCHANGED notifications
          /\ bg' = [bg EXCEPT ![o] = [BgNone EXCEPT !.pc = "done", !.files = bg[o].files,
                                                  !.i = bg[o].i]]
  /\ UNCHANGED <<USE_MOCK_RUNWAY, gv, disk, uploads, orders, images, videos, feedback,
                 final_videos, providerCalls, response, requests>>

\* process_notify without the test of line 251: every stored Video is announced
process_notify_always(o) ==
  /\ bg[o].pc = "notify"
  /\ create_notification(orders[o].user_id, "video_created", bg[o].vid, o)
  /\ bg' = [bg EXCEPT ![o] = [BgNone EXCEPT !.pc = "loop", !.files = bg[o].files,
                                             !.i = bg[o].i + 1]]
  /\ UNCHANGED <<USE_MOCK_RUNWAY, gv, disk, uploads, orders, images, videos, feedback,
                 final_videos, providerCalls, response, requests>>

\* lines 251-263: video_row.status is read back from the table (the commit of
\* line 249 expired the row), then the loop goes on
process_notify(o) ==
  /\ bg[o].pc = "notify"
  /\ IF videos[bg[o].vid].status = "succeeded"
     THEN create_notification(orders[o].user_id, "video_created", bg[o].vid, o)
     ELSE UNCHANGED notifications
  /\ bg' = [bg EXCEPT ![o] = [BgNone EXCEPT !.pc = "loop", !.files = bg[o].files,
                                             !.i = bg[o].i + 1]]
  /\ UNCHANGED <<USE_MOCK_RUNWAY, gv, disk, uploads, orders, images, videos, feedback,
                 final_videos, providerCalls, response, requests>>

\* the exceptions that nothing in the loop catches: they leave the function
\* through its finally, and the task is over
RaisedPcs == {"raised_prompt", "raised_read", "raised_commit", "raised_notify"}

\* process_prompt_raises with the rows of the order written in one transaction,
\* which the exception rolls back: the mirror fields and statuses are lost
process_prompt_raises_rollback(o) ==
  /\ bg[o].pc = "prompt"
  /\ bg' = [bg EXCEPT ![o].pc = "raised_prompt"]
  /\ images' = [m \in DOMAIN images |->
                  IF images[m].order_id = o
                  THEN UploadedImage(o, images[m].filename, images[m].content)
                  ELSE images[m]]
  /\ videos' = [v \in DOMAIN videos |->
                  IF images[videos[v].image_id].order_id = o
                  THEN [videos[v] EXCEPT !.status = "queued"]
                  ELSE videos[v]]
  /\ UNCHANGED <<USE_MOCK_RUNWAY, gv, disk, uploads, orders, feedback, notifications,
                 final_videos, providerCalls, response, requests>>

\* line 188: generate_cinematic_prompt_from_image raises
process_prompt_raises(o) ==
  /\ bg[o].pc = "prompt"
  /\ \E credentials \in BOOLEAN, readable \in BOOLEAN, model_ok \in BOOLEAN :
       generate_cinematic_prompt_from_image(credentials, readable, model_ok).raised
  /\ bg' = [bg EXCEPT ![o].pc = "raised_prompt"]
  /\ UNCHANGED <<USE_MOCK_RUNWAY, gv, disk, uploads, tables, providerCalls, response,
                 requests>>

\* lines 193-195: open(opt_path) fails; lines 242-243: the commit of the Video
\* row fails
process_generate_raises(o) ==
  /\ bg[o].pc = "generate"
  /\ \E pc \in {"raised_read", "raised_commit"} : bg' = [bg EXCEPT ![o].pc = pc]
  /\ UNCHANGED <<USE_MOCK_RUNWAY, gv, disk, uploads, tables, providerCalls, response,
                 requests>>

\* lines 252-257: create_notification raises
process_notify_raises(o) ==
  /\ bg[o].pc = "notify"
  /\ videos[bg[o].vid].status = "succeeded"
  /\ bg' = [bg EXCEPT ![o].pc = "raised_notify"]
  /\ UNCHANGED <<USE_MOCK_RUNWAY, gv, disk, uploads, tables, providerCalls, response,
                 requests>>

process_fault(o) ==
  \/ process_prompt_raises(o)
  \/ process_generate_raises(o)
  \/ process_notify_raises(o)

process_videos_for_order(o) ==
  \/ process_start(o)
  \/ process_skip(o)
  \/ process_image(o)
  \/ process_prompt(o)
  \/ process_generate(o)
  \/ process_mirror(o)
  \/ process_notify(o)
  \/ process_finish(o)

\* ------------------------------------------------------------- queries
\* the Video rows of an image in the table vs
VideosIn(vs, image_id) == {v \in DOMAIN vs : vs[v].image_id = image_id}

VideosOf(image_id) == VideosIn(videos, image_id)

\* .order_by(Video.iteration.desc(), Video.id.desc()).first(); NoId when none
LatestVideoIn(vs, image_id) ==
  IF VideosIn(vs, image_id) = {} THEN NoId
  ELSE CHOOSE v \in VideosIn(vs, image_id) :
         \A w \in VideosIn(vs, image_id) :
           \/ vs[w].iteration < vs[v].iteration
           \/ vs[w].iteration = vs[v].iteration /\ w <= v

LatestVideo(image_id) == LatestVideoIn(videos, image_id)

\* x or ""
OrEmpty(x) == IF x = NULL THEN "" ELSE x

BlankTexts == {"", "  "}
\* str.strip() on the texts the requests carry
Strip(s) == IF s \in BlankTexts THEN "" ELSE s
\* str.lower() on the statuses the requests carry
Lower(s) == IF s = "Completed" THEN "completed" ELSE s

\* ------------------------------------------------------------- create_new_order
\* Client.py: the order of a signed-in client; its image rows are committed at
\* once, the files go to uploads/, no background task is scheduled
RECURSIVE ClientImageRows(_, _)
ClientImageRows(order_id, names) ==
  IF names = <<>> THEN <<>>
  ELSE <<UploadedImage(order_id, Head(names), NULL)>>
         \o ClientImageRows(order_id, Tail(names))

RECURSIVE Names(_)
Names(names) == IF names = <<>> THEN {} ELSE {Head(names)} \cup Names(Tail(names))

NameBatches(names, max) == UNION {[1..n -> names] : n \in 0..max}

create_new_order(user_id, package, names) ==
  /\ Len(orders) < MaxOrders
  /\ TotalFiles + Len(names) <= MaxTotalFiles
  /\ orders' = Append(orders, Order(user_id, package, NoId))
  /\ uploads' = uploads \cup Names(names)
  /\ images' = images \o ClientImageRows(Len(orders) + 1, names)
  /\ bg' = Append(bg, BgNone)
  /\ response' = [op |-> "create_new_order", code |-> 200]
  /\ UNCHANGED <<USE_MOCK_RUNWAY, gv, disk, videos, feedback, notifications,
                 final_videos, providerCalls, requests>>

\* ------------------------------------------------------------- prompt engine
\* improve_prompt_with_feedback: the model's rewrite, or on any failure the
\* deterministic merge of lines 90 and 113
MergedPrompt(original_prompt, feedback_text) ==
  IF original_prompt = ""
  THEN "Incorporate this revision: " \o feedback_text \o "."      \* .strip()
  ELSE original_prompt \o " Incorporate this revision: " \o feedback_text \o "."

improve_prompt_with_feedback(original_prompt, feedback_text, model_ok) ==
  IF model_ok THEN "revised: " \o feedback_text
  ELSE MergedPrompt(original_prompt, feedback_text)

\* ------------------------------------------------------------- submit_feedback
\* lines 355-357: opt_path is the data URL itself; open(opt_path, "rb") finds a
\* file only if one of that name exists, and no operation creates one (for an
\* image row without content, b64encode(None) raises before that)
DataUrlFileExists == FALSE

\* lines 366-396: the generation of the child video
FeedbackGeneration(mock, outcome, download_ok) ==
  IF mock
  THEN [raised |-> FALSE, status |-> "succeeded", video_url |-> NULL,
        task_id |-> "mock-job", video_path |-> "videos/mock.mp4"]
  ELSE IF outcome = "output" /\ download_ok
       THEN [raised |-> FALSE, status |-> "succeeded", video_url |-> "runway-url",
             task_id |-> "task", video_path |-> "videos/video.mp4"]
       ELSE [raised |-> TRUE, status |-> NULL, video_url |-> NULL,
             task_id |-> NULL, video_path |-> NULL]

\* SaveFeedback keeping one row per video: a second feedback on a video
\* replaces the first
SaveFeedbackUpsert(rows, fb) ==
  IF \E f \in DOMAIN rows : rows[f].video_id = fb.video_id
  THEN [f \in DOMAIN rows |-> IF rows[f].video_id = fb.video_id THEN fb ELSE rows[f]]
  ELSE Append(rows, fb)

\* lines 349-352: db.add(fb); db.commit()
SaveFeedback(rows, fb) == Append(rows, fb)

submit_feedback(video_id, feedback_text, model_ok, outcome, download_ok) ==
  /\ requests < MaxRequests
  /\ requests' = requests + 1
  /\ IF video_id \notin DOMAIN videos
     THEN \* HTTPException(404) is raised inside the try and caught by
          \* "except Exception" (line 421), which answers 500
          /\ response' = [op |-> "submit_feedback", code |-> 500]
          /\ UNCHANGED <<feedback, videos, providerCalls>>
     ELSE LET parent_video == videos[video_id]
              new_prompt == improve_prompt_with_feedback(parent_video.prompt,
                                                         feedback_text, model_ok)
              g == FeedbackGeneration(USE_MOCK_RUNWAY, outcome, download_ok)
          IN
            /\ feedback' = SaveFeedback(feedback,
                                        Feedback(video_id, feedback_text, new_prompt))
            /\ IF ~DataUrlFileExists \/ g.raised
               THEN /\ response' = [op |-> "submit_feedback", code |-> 500]
                    /\ UNCHANGED videos
               ELSE /\ videos' = Append(videos,
                          Video(parent_video.image_id, new_prompt, g.task_id, g.status,
                                g.video_url, g.video_path, video_id,
                                parent_video.iteration + 1))
                    /\ response' = [op |-> "submit_feedback", code |-> 200]
            /\ providerCalls' = IF DataUrlFileExists /\ ~USE_MOCK_RUNWAY
                                THEN providerCalls + 1 ELSE providerCalls
  /\ UNCHANGED <<USE_MOCK_RUNWAY, gv, disk, uploads, orders, images, notifications,
                 final_videos, bg>>

\* ------------------------------------------------------------- admin_update_order_status
\* status_map without the translation of completed
status_map_pending_only(new_status) ==
  IF new_status = "pending" THEN "queued" ELSE new_status

status_map(new_status) ==
  IF new_status = "completed" THEN "succeeded"
  ELSE IF new_status = "pending" THEN "queued"
  ELSE new_status

InternalStatuses == {"queued", "processing", "succeeded", "failed"}

\* the check of line 157 left out
ValidStatusAny(internal_status) == TRUE

\* the check of line 157 letting the empty status through, as the tests of
\* lines 180 and 188 would allow
ValidStatusOrEmpty(internal_status) == internal_status \in InternalStatuses \cup {""}

\* line 157
ValidStatus(internal_status) == internal_status \in InternalStatuses

\* StatusUpdate adding a row on every request
StatusUpdateAlwaysAdds(vs, image_id, status) ==
  LET internal_status == status_map(Lower(Strip(status))) IN
    IF ~ValidStatus(internal_status)
    THEN [code |-> 400, videos |-> vs, video_id |-> NoId]
    ELSE IF image_id \notin DOMAIN images
    THEN [code |-> 404, videos |-> vs, video_id |-> NoId]
    ELSE [code |-> 200,
          videos |-> Append(vs, Video(image_id, OrEmpty(images[image_id].prompt), NULL,
                                      internal_status, NULL, NULL, NoId, 1)),
          video_id |-> Len(vs) + 1]

\* lines 154-191: what a request does to the videos table vs: the status code,
\* the table afterwards, and the row it answers with
StatusUpdate(vs, image_id, status) ==
  LET internal_status == status_map(Lower(Strip(status))) IN
    IF ~ValidStatus(internal_status)
    THEN [code |-> 400, videos |-> vs, video_id |-> NoId]
    ELSE IF image_id \notin DOMAIN images
    THEN [code |-> 404, videos |-> vs, video_id |-> NoId]
    ELSE LET latest_video == LatestVideoIn(vs, image_id) IN
           IF latest_video = NoId
           THEN [code |-> 200,
                 videos |-> Append(vs,
                   Video(image_id, OrEmpty(images[image_id].prompt), NULL,
                         IF internal_status = "" THEN "queued" ELSE internal_status,
                         NULL, NULL, NoId, 1)),
                 video_id |-> Len(vs) + 1]
           ELSE [code |-> 200,
                 videos |-> IF internal_status # ""
                            THEN [vs EXCEPT ![latest_video].status = internal_status]
                            ELSE vs,
                 video_id |-> latest_video]

\* lines 193-199: the body of the answer
StatusReply(r, image_id) ==
  IF r.code # 200 THEN [code |-> r.code]
  ELSE [code |-> 200, image_id |-> image_id, video_id |-> r.video_id,
        status |-> r.videos[r.video_id].status,
        video_path |-> r.videos[r.video_id].video_path,
        video_url |-> r.videos[r.video_id].video_url]

admin_update_order_status(image_id, status) ==
  /\ requests < MaxRequests
  /\ requests' = requests + 1
  /\ LET r == StatusUpdate(videos, image_id, status) IN
       /\ videos' = r.videos
       /\ response' = [op |-> "admin_update_order_status",
                       code |-> StatusReply(r, image_id).code]
  /\ UNCHANGED <<USE_MOCK_RUNWAY, gv, disk, uploads, orders, images, feedback,
                 notifications, final_videos, bg, providerCalls>>

\* ------------------------------------------------------------- admin_upload_final_video
FinalPath == "/final_videos/final.mp4"
FinalUrl == "https://dropbox/final.mp4?raw=1"

ImagesOfUser(user_id) ==
  {i \in DOMAIN images : orders[images[i].order_id].user_id = user_id}

RECURSIVE FinalVideoRowsNextIteration(_, _)
\* FinalVideoRows numbering the new row one above the image's latest row,
\* without naming that row as its parent
FinalVideoRowsNextIteration(i, user_id) ==
  IF i > Len(images) THEN <<>>
  ELSE (IF i \in ImagesOfUser(user_id)
        THEN <<Video(i, OrEmpty(images[i].prompt), NULL, "succeeded", FinalUrl,
                     FinalPath, NoId,
                     IF LatestVideo(i) = NoId THEN 1
                     ELSE videos[LatestVideo(i)].iteration + 1)>>
        ELSE <<>>) \o FinalVideoRowsNextIteration(i + 1, user_id)

RECURSIVE FinalVideoRows(_, _)
\* lines 377-393: one new Video row per image of the user, in id order
FinalVideoRows(i, user_id) ==
  IF i > Len(images) THEN <<>>
  ELSE (IF i \in ImagesOfUser(user_id)
        THEN <<Video(i, OrEmpty(images[i].prompt), NULL, "succeeded", FinalUrl,
                     FinalPath, NoId, 1)>>
        ELSE <<>>) \o FinalVideoRows(i + 1, user_id)

\* admin_upload_final_video updating the latest Video row of an image that has
\* one, in place of adding a row
admin_upload_final_video_update(user_id, dropbox_ok) ==
  /\ requests < MaxRequests
  /\ requests' = requests + 1
  /\ IF ImagesOfUser(user_id) = {} \/ ~dropbox_ok
     THEN /\ response' = [op |-> "admin_upload_final_video",
                          code |-> IF ImagesOfUser(user_id) = {} THEN 404 ELSE 500]
          /\ UNCHANGED <<images, videos, final_videos>>
     ELSE /\ images' = [i \in DOMAIN images |->
                          IF i \in ImagesOfUser(user_id)
                          THEN [images[i] EXCEPT !.video_path = FinalPath,
                                                 !.video_url = FinalUrl,
                                                 !.video_generated_at = Now]
                          ELSE images[i]]
          /\ videos' = [v \in DOMAIN videos |->
                          IF /\ videos[v].image_id \in ImagesOfUser(user_id)
                             /\ v = LatestVideo(videos[v].image_id)
                          THEN [videos[v] EXCEPT !.status = "succeeded",
                                                 !.video_path = FinalPath,
                                                 !.video_url = FinalUrl]
                          ELSE videos[v]]
                        \o SelectSeq(FinalVideoRows(1, user_id),
                                     LAMBDA r : VideosOf(r.image_id) = {})
          /\ final_videos' = Append(final_videos,
                 [user_id |-> user_id,
                  image_id |-> CHOOSE i \in ImagesOfUser(user_id) :
                                 \A j \in ImagesOfUser(user_id) : i <= j,
                  dropbox_path |-> FinalPath, video_url |-> FinalUrl])
          /\ response' = [op |-> "admin_upload_final_video", code |-> 200]
  /\ UNCHANGED <<USE_MOCK_RUNWAY, gv, disk, uploads, orders, feedback, notifications,
                 bg, providerCalls>>

admin_upload_final_video(user_id, dropbox_ok) ==
  /\ requests < MaxRequests
  /\ requests' = requests + 1
  /\ IF ImagesOfUser(user_id) = {}
     THEN /\ response' = [op |-> "admin_upload_final_video", code |-> 404]
          /\ UNCHANGED <<images, videos, final_videos>>
     ELSE IF ~dropbox_ok
     THEN \* files_upload or the shared link raised: nothing was committed
          /\ response' = [op |-> "admin_upload_final_video", code |-> 500]
          /\ UNCHANGED <<images, videos, final_videos>>
     ELSE /\ images' = [i \in DOMAIN images |->
                          IF i \in ImagesOfUser(user_id)
                          THEN [images[i] EXCEPT !.video_path = FinalPath,
                                                 !.video_url = FinalUrl,
                                                 !.video_generated_at = Now]
                          ELSE images[i]]
          /\ videos' = videos \o FinalVideoRows(1, user_id)
          /\ final_videos' = Append(final_videos,
                 [user_id |-> user_id,
                  image_id |-> CHOOSE i \in ImagesOfUser(user_id) :
                                 \A j \in ImagesOfUser(user_id) : i <= j,
                  dropbox_path |-> FinalPath, video_url |-> FinalUrl])
          /\ response' = [op |-> "admin_upload_final_video", code |-> 200]
  /\ UNCHANGED <<USE_MOCK_RUNWAY, gv, disk, uploads, orders, feedback, notifications,
                 bg, providerCalls>>

\* ------------------------------------------------------------- admin_regenerate_video
\* line 575 reads next_iteration, a name that is bound nowhere: building the
\* Video row raises NameError, so no row is added and generate_video is not called
admin_regenerate_video(image_id, prompt) ==
  /\ requests < MaxRequests
  /\ requests' = requests + 1
  /\ LET new_prompt == Strip(prompt) IN
       response' =
         [op |-> "admin_regenerate_video",
          code |-> IF new_prompt = "" THEN 422
                   ELSE IF image_id \notin DOMAIN images THEN 404
                   ELSE IF images[image_id].filename \notin uploads THEN 404
                   ELSE 500]
  /\ UNCHANGED <<USE_MOCK_RUNWAY, gv, disk, uploads, tables, bg, providerCalls>>

\* ------------------------------------------------------------- generate_video
\* runway_service.py:95
max_attempts == 60

\* no call under way
GvIdle == [pc |-> "idle", video_id |-> NoId, attempts |-> 0, polls |-> 0, cause |-> NULL]

\* the "if video_id:" blocks: the row, if there is one, gets the status
MarkVideo(video_id, status) ==
  IF video_id # NoId /\ video_id \in DOMAIN videos
  THEN [videos EXCEPT ![video_id].status = status]
  ELSE videos

GvRaise(cause) == [gv EXCEPT !.pc = "raised", !.cause = cause]

\* lines 29-44: the checks of the arguments, then the row is marked processing
generate_video_start(prompt, image_exists, video_id) ==
  /\ gv.pc = "idle"
  /\ IF ~image_exists
     THEN gv' = [GvIdle EXCEPT !.pc = "raised", !.video_id = video_id,
                               !.cause = "file_not_found"]
          /\ UNCHANGED videos
     ELSE IF Strip(prompt) = ""
     THEN gv' = [GvIdle EXCEPT !.pc = "raised", !.video_id = video_id,
                               !.cause = "empty_prompt"]
          /\ UNCHANGED videos
     ELSE /\ gv' = [GvIdle EXCEPT !.pc = "submit", !.video_id = video_id]
          /\ videos' = MarkVideo(video_id, "processing")
  /\ UNCHANGED <<USE_MOCK_RUNWAY, disk, uploads, orders, images, feedback, notifications,
                 final_videos, bg, providerCalls, response, requests>>

SubmitOutcomes == {"transport_error", "no_job_id", "job"}

\* lines 59-91: the job is created
generate_video_submit(outcome) ==
  /\ gv.pc = "submit"
  /\ providerCalls' = providerCalls + 1
  /\ IF outcome = "transport_error"
     THEN /\ videos' = MarkVideo(gv.video_id, "failed")
          /\ gv' = GvRaise("submit_failed")
     ELSE IF outcome = "no_job_id"
     THEN /\ UNCHANGED videos
          /\ gv' = GvRaise("no_job_id")
     ELSE /\ videos' = IF gv.video_id # NoId /\ gv.video_id \in DOMAIN videos
                       THEN [videos EXCEPT ![gv.video_id].runway_job_id = "task"]
                       ELSE videos
          /\ gv' = [gv EXCEPT !.pc = "poll"]
  /\ UNCHANGED <<USE_MOCK_RUNWAY, disk, uploads, orders, images, feedback, notifications,
                 final_videos, bg, response, requests>>

PollOutcomes ==
  {"transport_error", "SUCCEEDED", "SUCCEEDED_no_url", "SUCCEEDED_no_download",
   "FAILED", "RUNNING"}

\* line 165 with the attempts frozen: the loop condition never changes
NextAttemptStuck(attempts) == attempts

\* line 165: attempts += 1
NextAttempt(attempts) == attempts + 1

\* lines 97-165: one turn of the polling loop, which starts with the status
\* request of line 99
generate_video_poll(outcome) ==
  /\ gv.pc = "poll"
  /\ gv.attempts < max_attempts
  /\ LET polled == [gv EXCEPT !.polls = @ + 1]
     IN IF outcome = "transport_error"
        THEN /\ videos' = MarkVideo(gv.video_id, "failed")
             /\ gv' = [polled EXCEPT !.pc = "raised", !.cause = "poll_failed"]
        ELSE IF outcome = "SUCCEEDED_no_url"
        THEN /\ UNCHANGED videos
             /\ gv' = [polled EXCEPT !.pc = "raised", !.cause = "no_video_url"]
        ELSE IF outcome = "SUCCEEDED_no_download"
        THEN /\ UNCHANGED videos
             /\ gv' = [polled EXCEPT !.pc = "raised", !.cause = "download_failed"]
        ELSE IF outcome = "SUCCEEDED"
        THEN /\ videos' = IF gv.video_id # NoId /\ gv.video_id \in DOMAIN videos
                          THEN [videos EXCEPT ![gv.video_id].status = "succeeded",
                                              ![gv.video_id].video_path = "videos/regen.mp4",
                                              ![gv.video_id].video_url = "runway-url"]
                          ELSE videos
             /\ gv' = [polled EXCEPT !.pc = "returned"]
        ELSE IF outcome = "FAILED"
        THEN /\ videos' = MarkVideo(gv.video_id, "failed")
             /\ gv' = [polled EXCEPT !.pc = "raised", !.cause = "provider_failed"]
        ELSE /\ UNCHANGED videos
             /\ gv' = [polled EXCEPT !.attempts = NextAttempt(@)]
  /\ UNCHANGED <<USE_MOCK_RUNWAY, disk, uploads, orders, images, feedback, notifications,
                 final_videos, bg, providerCalls, response, requests>>

\* lines 167-179: the attempts are used up
generate_video_timeout ==
  /\ gv.pc = "poll"
  /\ gv.attempts = max_attempts
  /\ videos' = MarkVideo(gv.video_id, "failed")
  /\ gv' = GvRaise("timeout")
  /\ UNCHANGED <<USE_MOCK_RUNWAY, disk, uploads, orders, images, feedback, notifications,
                 final_videos, bg, providerCalls, response, requests>>

\* ------------------------------------------------------------- specification
Init ==
  /\ USE_MOCK_RUNWAY \in BOOLEAN
  /\ disk = [f \in Filenames |-> NULL]
  /\ uploads = {}
  /\ orders = <<>>
  /\ images = <<>>
  /\ videos = <<>>
  /\ feedback = <<>>
  /\ notifications = <<>>
  /\ final_videos = <<>>
  /\ bg = <<>>
  /\ providerCalls = 0
  /\ response = [op |-> "none", code |-> 0]
  /\ requests = 0
  /\ gv = GvIdle

Background == \E o \in DOMAIN orders : process_videos_for_order(o)

\* uploads of up to MaxFiles files and their background tasks
PipelineNext ==
  \/ \E package \in PackageInputs, files \in Batches(Filenames, Contents, MaxFiles) :
       upload_photos(package, files)
  \/ Background

PipelineSpec == Init /\ [][PipelineNext]_vars

\* every workflow; a request carries up to MaxWorkflowFiles files
Next ==
  \/ \E package \in WorkflowPackages,
        files \in Batches(WorkflowFilenames, WorkflowContents, MaxWorkflowFiles) :
       /\ Len(orders) < MaxWorkflowOrders
       /\ TotalFiles + Len(files) <= MaxWorkflowFiles
       /\ upload_photos(package, files)
  \/ Background
  \/ \E user_id \in Users, package \in WorkflowPackages,
        names \in NameBatches(WorkflowFilenames, MaxWorkflowFiles) :
       /\ Len(orders) < MaxWorkflowOrders
       /\ TotalFiles + Len(names) <= MaxWorkflowFiles
       /\ create_new_order(user_id, package, names)
  \/ \E video_id \in 1..(Len(videos) + 1), feedback_text \in FeedbackTexts,
        model_ok \in BOOLEAN, outcome \in ProviderOutcomes, download_ok \in BOOLEAN :
       submit_feedback(video_id, feedback_text, model_ok, outcome, download_ok)
  \/ \E image_id \in 1..(Len(images) + 1), status \in StatusInputs :
       admin_update_order_status(image_id, status)
  \/ \E user_id \in Users, dropbox_ok \in BOOLEAN :
       admin_upload_final_video(user_id, dropbox_ok)
  \/ \E image_id \in 1..(Len(images) + 1), prompt \in PromptInputs :
       admin_regenerate_video(image_id, prompt)

Spec == Init /\ [][Next]_vars

\* uploads and their background tasks, with the failures of the steps around
\* the generation
FaultNext ==
  \/ \E package \in WorkflowPackages, files \in Batches(Filenames, Contents, MaxFiles) :
       upload_photos(package, files)
  \/ Background
  \/ \E o \in DOMAIN orders : process_fault(o)

FaultSpec == Init /\ [][FaultNext]_vars

\* generate_video called for the row its caller has stored: an image of a
\* client's order with its file in uploads/, and one Video row
GenerateInit ==
  /\ USE_MOCK_RUNWAY \in BOOLEAN
  /\ disk = [f \in Filenames |-> NULL]
  /\ uploads = {"a.jpg"}
  /\ orders = <<Order(1, "Starter", NoId)>>
  /\ images = <<UploadedImage(1, "a.jpg", NULL)>>
  /\ \E prompt \in {Strip(p) : p \in PromptInputs} \ {""} :
       videos = <<Video(1, prompt, NULL, "queued", NULL, NULL, NoId, 1)>>
  /\ feedback = <<>>
  /\ notifications = <<>>
  /\ final_videos = <<>>
  /\ bg = <<BgNone>>
  /\ providerCalls = 0
  /\ response = [op |-> "none", code |-> 0]
  /\ requests = 0
  /\ gv = GvIdle

GenerateNext ==
  \/ \E prompt \in PromptInputs, image_exists \in BOOLEAN,
        video_id \in 0..(Len(videos) + 1) :
       generate_video_start(prompt, image_exists, video_id)
  \/ \E outcome \in SubmitOutcomes : generate_video_submit(outcome)
  \/ \E outcome \in PollOutcomes : generate_video_poll(outcome)
  \/ generate_video_timeout

GenerateSpec == GenerateInit /\ [][GenerateNext]_vars

\* generate_video runs to its end once called: every request has a timeout
\* (lines 60, 99, 126) and the loop sleeps five seconds a turn (line 164)
TerminationSpec == GenerateInit /\ [][GenerateNext]_vars /\ WF_vars(GenerateNext)

\* ------------------------------------------------------------- properties
ImagesOfOrder(o) == {m \in DOMAIN images : images[m].order_id = o}

FirstVideos(m) == {v \in DOMAIN videos : videos[v].image_id = m /\ videos[v].iteration = 1}

FirstVideoFailed(m) == \E v \in FirstVideos(m) : videos[v].status = "failed"

\* the files of the batch the loop is through with
Handled(o) == IF bg[o].pc = "done" THEN Len(bg[o].files) ELSE bg[o].i - 1

\* no later upload wrote a file of the same name: the files of order o are on
\* disk as order o sent them
Untouched(o) ==
  \A o2 \in DOMAIN orders :
    o2 > o => \A j \in DOMAIN bg[o].files, k \in DOMAIN bg[o2].files :
                bg[o].files[j] # bg[o2].files[k]

\* how many of the first n files of the batch open as images
OpenedAmong(o, n) == Cardinality({j \in 1..n : Opens(bg[o].files[j])})

BetweenImages(o) == bg[o].pc \in {"loop", "done"}

\* C1: a failed generation for one image of a batch does not stop the batch:
\* once the loop is through with a file, every file before it that opens has
\* its UploadedImage row, and every image after a failed one has its
\* iteration-1 Video row.
C1_FailureDoesNotStopBatch ==
  \A o \in DOMAIN orders :
    (BetweenImages(o) /\ Untouched(o)) =>
      \A m \in ImagesOfOrder(o) :
        FirstVideoFailed(m) =>
          /\ Cardinality(ImagesOfOrder(o)) = OpenedAmong(o, Handled(o))
          /\ \A n \in ImagesOfOrder(o) : n > m => FirstVideos(n) # {}

\* a finished batch of two images whose first generation failed
C1_Witness ==
  \E o \in DOMAIN orders :
    /\ bg[o].pc = "done"
    /\ Untouched(o)
    /\ \E m, n \in ImagesOfOrder(o) :
         m < n /\ FirstVideoFailed(m) /\ FirstVideos(n) # {}

VideosOfOrder(o) == {v \in DOMAIN videos : videos[v].image_id \in ImagesOfOrder(o)}

\* C2 as stated: a finished batch of N files has exactly N UploadedImage rows
\* and at most N Video rows, all of iteration 1.
C2_ExactlyNImages ==
  \A o \in DOMAIN orders :
    bg[o].pc = "done" =>
      /\ Cardinality(ImagesOfOrder(o)) = Len(bg[o].files)
      /\ Cardinality(VideosOfOrder(o)) <= Len(bg[o].files)
      /\ \A v \in VideosOfOrder(o) : videos[v].iteration = 1

\* C2 amended: a finished batch of N files has one UploadedImage row per file
\* that opens as an image (at most N, none for N = 0) and one iteration-1 Video
\* row per image.
C2_OneImagePerReadableFile ==
  \A o \in DOMAIN orders :
    bg[o].pc = "done" =>
      /\ Cardinality(ImagesOfOrder(o)) <= Len(bg[o].files)
      /\ Untouched(o) =>
           Cardinality(ImagesOfOrder(o)) = OpenedAmong(o, Len(bg[o].files))
      /\ Cardinality(VideosOfOrder(o)) = Cardinality(ImagesOfOrder(o))
      /\ \A m \in ImagesOfOrder(o) : Cardinality(FirstVideos(m)) = 1
      /\ \A v \in VideosOfOrder(o) : videos[v].iteration = 1

\* a finished batch of two files of which one opens, and a finished empty batch
C2_Witness ==
  /\ \E o \in DOMAIN orders :
       /\ bg[o].pc = "done"
       /\ Len(bg[o].files) = 2
       /\ Cardinality(ImagesOfOrder(o)) = 1
  /\ \E o \in DOMAIN orders :
       bg[o].pc = "done" /\ Len(bg[o].files) = 0

Terminal(status) == status \in {"succeeded", "failed"}

\* C3: for each image the iterations of its Video rows are pairwise distinct,
\* start at 1 and increase in creation order.
C3_IterationChain ==
  \A m \in DOMAIN images :
    /\ \A v, w \in VideosOf(m) : v < w => videos[v].iteration < videos[w].iteration
    /\ VideosOf(m) # {} => \E v \in VideosOf(m) : videos[v].iteration = 1

\* C4 as stated: no step changes the status of a Video row that is succeeded
\* or failed.
C4_TerminalStatusNeverChanges ==
  [][\A v \in DOMAIN videos :
       Terminal(videos[v].status) => videos'[v].status = videos[v].status]_vars

\* C4 amended: the only step that changes the status of a succeeded or failed
\* Video row is an admin_update_order_status request, on the latest row of an
\* image; the pipeline, submit_feedback, admin_regenerate_video and
\* admin_upload_final_video leave the status of every existing row alone.
C4_OnlyAdminOverrideChangesTerminal ==
  [][\A v \in DOMAIN videos :
       (Terminal(videos[v].status) /\ videos'[v].status # videos[v].status) =>
         /\ requests' = requests + 1
         /\ response'.op = "admin_update_order_status"
         /\ v = LatestVideo(videos[v].image_id)
         /\ bg' = bg]_vars

\* the pipeline stored a row with its terminal status and the override rewrote it
C4_Witness ==
  /\ response.op = "admin_update_order_status"
  /\ \E v \in DOMAIN videos :
       /\ videos[v].runway_job_id # NULL
       /\ ~Terminal(videos[v].status)
  /\ \E o \in DOMAIN orders : bg[o].pc = "done" /\ ImagesOfOrder(o) # {}

ValidUpload(package, count) ==
  /\ package \in DOMAIN PACKAGE_LIMITS
  /\ PACKAGE_LIMITS[package][1] <= count
  /\ count <= PACKAGE_LIMITS[package][2]

\* C5: an upload whose package is unknown or whose file count is outside the
\* package's range persists no Order and schedules no background task.
C5_InvalidUploadRejected ==
  \A o \in DOMAIN orders :
    bg[o].pc # "none" => ValidUpload(orders[o].package, Len(bg[o].files))

\* the iteration-1 row of image m is stored and the image row has been updated
Mirrored(m) ==
  /\ FirstVideos(m) # {}
  /\ \A o \in DOMAIN orders : bg[o].img = m => bg[o].pc = "notify"

\* C6: after a failed generation the image's mirror fields are as they were
\* before the attempt: video_url, video_path and video_generated_at unset.
C6_FailureLeavesMirrorUntouched ==
  \A m \in DOMAIN images :
    (Mirrored(m) /\ FirstVideoFailed(m)) =>
      /\ images[m].video_url = NULL
      /\ images[m].video_path = NULL
      /\ images[m].video_generated_at = NULL

\* C7: once the pipeline has stored a succeeded iteration-1 Video for an image,
\* the image's video_url is non-null and equal to the Video's, and
\* video_generated_at is set, in mock mode and in live mode.
C7_SuccessIsMirrored ==
  \A m \in DOMAIN images :
    Mirrored(m) =>
      \A v \in FirstVideos(m) :
        videos[v].status = "succeeded" =>
          /\ images[m].video_url # NULL
          /\ images[m].video_url = videos[v].video_url
          /\ images[m].video_generated_at # NULL

\* C8: in mock mode no step calls the generation provider, and every Video row
\* added by a step of the pipeline or by submit_feedback is succeeded.
C8_MockAlwaysSucceeds ==
  [][USE_MOCK_RUNWAY =>
       /\ providerCalls' = 0
       /\ (bg' # bg \/ feedback' # feedback) =>
            \A v \in DOMAIN videos' :
              v \notin DOMAIN videos => videos'[v].status = "succeeded"]_vars

\* mock mode: the pipeline stored a Video and a feedback request was served
C8_Witness ==
  /\ USE_MOCK_RUNWAY
  /\ providerCalls = 0
  /\ feedback # <<>>
  /\ \E v \in DOMAIN videos :
       videos[v].runway_job_id = "mock-job" /\ videos[v].status = "succeeded"

\* C9: a feedback with non-blank text on an existing Video V leaves one
\* Feedback row on V and one child Video of V: same image, iteration
\* V.iteration + 1, prompt the revised prompt.
C9_FeedbackCreatesChild ==
  \A f \in DOMAIN feedback :
    Strip(feedback[f].feedback_text) # "" =>
      \E c \in DOMAIN videos :
        /\ videos[c].parent_video_id = feedback[f].video_id
        /\ videos[c].image_id = videos[feedback[f].video_id].image_id
        /\ videos[c].iteration = videos[feedback[f].video_id].iteration + 1
        /\ videos[c].prompt = feedback[f].new_prompt

\* C10: a feedback whose text is blank is rejected before any row is written:
\* no Feedback row holds a blank text.  (The regeneration half is the 422 of
\* admin_regenerate_video, which leaves the tables as they were.)
C10_BlankInputRejected ==
  \A f \in DOMAIN feedback : Strip(feedback[f].feedback_text) # ""

TouchedImages == {m \in DOMAIN images' : m \notin DOMAIN images \/ images'[m] # images[m]}
TouchedVideos == {v \in DOMAIN videos' : v \notin DOMAIN videos \/ videos'[v] # videos[v]}

\* the rows of a finished order hang together: one Video per image, carrying
\* the image's prompt and the url mirrored on the image, for a file of the order
OwnRowsOnly(o) ==
  /\ Cardinality(ImagesOfOrder(o)) <= Len(bg[o].files)
  /\ \A m \in ImagesOfOrder(o) :
       /\ \E j \in DOMAIN bg[o].files : bg[o].files[j] = images[m].filename
       /\ Cardinality(VideosOf(m)) = 1
       /\ \A v \in VideosOf(m) :
            /\ videos[v].prompt = images[m].prompt
            /\ videos[v].video_url = images[m].video_url
            /\ images[m].video_generated_at # NULL

\* C13: whatever the interleaving of the background tasks of different orders,
\* a step of the task of order o adds and changes only UploadedImage rows of o
\* and Video rows of images of o, and a finished order holds the rows its own
\* task built: one Video per image, with that image's prompt and url.
C13_PipelinesAreIsolated ==
  /\ [](\A o \in DOMAIN orders : bg[o].pc = "done" => OwnRowsOnly(o))
  /\ [][\A o \in DOMAIN bg :
          bg'[o] # bg[o] =>
            /\ \A m \in TouchedImages : images'[m].order_id = o
            /\ \A v \in TouchedVideos : images'[videos'[v].image_id].order_id = o]_vars

\* two finished orders whose tasks ran interleaved: the later order's image
\* row was committed before the earlier order's
C13_Witness ==
  \E o1, o2 \in DOMAIN orders :
    /\ o1 < o2
    /\ bg[o1].pc = "done" /\ bg[o2].pc = "done"
    /\ \E m1 \in ImagesOfOrder(o1), m2 \in ImagesOfOrder(o2) : m2 < m1

\* C14: admin_update_order_status is idempotent: in every reachable state and
\* for every image id and status, a second request with the same input leaves
\* the videos table as the first left it and answers the same.
C14_StatusOverrideIdempotent ==
  \A image_id \in 1..(Len(images) + 1), status \in StatusInputs :
    LET once == StatusUpdate(videos, image_id, status)
        twice == StatusUpdate(once.videos, image_id, status)
    IN /\ twice.videos = once.videos
       /\ StatusReply(twice, image_id) = StatusReply(once, image_id)

\* two requests were served by the override, on a row the override had created
C14_Witness ==
  /\ response = [op |-> "admin_update_order_status", code |-> 200]
  /\ requests = 2
  /\ Len(videos) = 1
  /\ videos[1].runway_job_id = NULL /\ videos[1].status = "processing"
  /\ feedback = <<>> /\ final_videos = <<>>

\* C15: "completed" on an existing image without a Video row adds exactly one
\* row: iteration 1, status succeeded, prompt the image's prompt or "".
C15_CompletedCreatesFirstVideo ==
  \A image_id \in DOMAIN images :
    VideosOf(image_id) = {} =>
      StatusUpdate(videos, image_id, "completed") =
        [code |-> 200,
         videos |-> Append(videos, Video(image_id, OrEmpty(images[image_id].prompt),
                                         NULL, "succeeded", NULL, NULL, NoId, 1)),
         video_id |-> Len(videos) + 1]

\* the override has created the row of an image that has a prompt
C15_Witness ==
  /\ response = [op |-> "admin_update_order_status", code |-> 200]
  /\ \E m \in DOMAIN images :
       /\ images[m].prompt # NULL
       /\ \E v \in VideosOf(m) :
            videos[v] = Video(m, images[m].prompt, NULL, "succeeded", NULL, NULL, NoId, 1)

\* C18: the status of every Video row is queued, processing, succeeded or
\* failed; completed and pending are never stored.
C18_OnlyInternalStatuses ==
  \A v \in DOMAIN videos :
    videos[v].status \in {"queued", "processing", "succeeded", "failed"}

\* the override has stored a translated status
C18_Witness ==
  /\ response = [op |-> "admin_update_order_status", code |-> 200]
  /\ \E v \in DOMAIN videos : videos[v].status = "queued"

\* C17: a feedback request that names no existing Video (the one request that
\* leaves the feedback table as it was) answers 404 and adds no row.
C17_MissingVideoIsNotFound ==
  [][(response'.op = "submit_feedback" /\ requests' = requests + 1
        /\ feedback' = feedback) =>
       /\ response'.code = 404
       /\ videos' = videos]_vars

\* C19: a regeneration request that passes the checks (non-blank prompt,
\* existing image, source file present) adds one Video row for the image:
\* the supplied prompt, iteration one above the image's latest, that latest
\* row as parent, status succeeded or failed.
C19_RegenerateAddsIteration ==
  [][(response'.op = "admin_regenerate_video" /\ requests' = requests + 1
        /\ response'.code \notin {422, 404}) =>
       /\ Len(videos') = Len(videos) + 1
       /\ LET video == videos'[Len(videos')]
              latest == LatestVideo(video.image_id)
          IN /\ Strip(video.prompt) \in PromptInputs \ {""}
             /\ video.status \in {"succeeded", "failed"}
             /\ latest # NoId =>
                  /\ video.iteration = videos[latest].iteration + 1
                  /\ video.parent_video_id = latest
             /\ latest = NoId => video.iteration = 1]_vars

\* the Video row that the call was given
GvRow == gv.video_id # NoId /\ gv.video_id \in DOMAIN videos

GenerationFailures ==
  {"submit_failed", "no_job_id", "poll_failed", "provider_failed", "timeout",
   "no_video_url", "download_failed"}

\* C11 as stated: when generate_video has raised for a generation failure,
\* the row it was given is failed.
C11_RaiseLeavesFailed ==
  (gv.pc = "raised" /\ gv.cause \in GenerationFailures /\ GvRow) =>
    videos[gv.video_id].status = "failed"

\* the call raised for a job without id, after marking the row it was given
C11_Witness ==
  /\ gv.pc = "raised" /\ gv.cause = "no_job_id"
  /\ GvRow /\ videos[gv.video_id].status = "processing"

\* C16: the prompt functions never raise: no background task ends in an
\* exception of generate_cinematic_prompt_from_image, whatever the credentials,
\* the file and the model call.
C16_PromptEngineNeverRaises ==
  \A o \in DOMAIN bg : bg[o].pc # "raised_prompt"

\* C20: a failure of a step other than the generation, for one image, does
\* not end the batch: a task ends in an exception only when no file is left.
C20_FaultDoesNotAbortBatch ==
  \A o \in DOMAIN bg :
    bg[o].pc \in RaisedPcs => bg[o].i >= Len(bg[o].files)

\* the rows of image m are complete: its iteration-1 Video is stored with a
\* terminal status and the image row carries what was mirrored
CompletedImage(m) ==
  /\ Cardinality(FirstVideos(m)) = 1
  /\ \A v \in FirstVideos(m) :
       /\ Terminal(videos[v].status)
       /\ images[m].video_url = videos[v].video_url
       /\ images[m].prompt = videos[v].prompt
  /\ images[m].video_generated_at # NULL

\* C21: when the task of an order ends in an exception while handling image
\* k, the step that ends it changes no UploadedImage and no Video row, and
\* the rows of the images handled before k stay complete: Video with its
\* terminal status, image with its mirror fields.
C21_CommittedRowsSurviveAbort ==
  /\ [](\A o \in DOMAIN bg :
          bg[o].pc \in RaisedPcs =>
            \A m \in ImagesOfOrder(o) : m # bg[o].img => CompletedImage(m))
  /\ [][\A o \in DOMAIN bg :
          (bg'[o].pc \in RaisedPcs /\ bg[o].pc \notin RaisedPcs) =>
            images' = images /\ videos' = videos]_vars

\* the task ended in an exception at its second image, the first one complete
C21_Witness ==
  \E o \in DOMAIN bg :
    /\ bg[o].pc \in RaisedPcs
    /\ bg[o].i = 2
    /\ \E m \in ImagesOfOrder(o) : m # bg[o].img /\ CompletedImage(m)

\* C22: no step changes a field of an existing Order row, removes a row of
\* orders, images, videos or feedback, or changes an existing Feedback row.
C22_OrdersAndFeedbackImmutable ==
  [][/\ Len(orders') >= Len(orders)
     /\ \A o \in DOMAIN orders : orders'[o] = orders[o]
     /\ Len(images') >= Len(images)
     /\ Len(videos') >= Len(videos)
     /\ Len(feedback') >= Len(feedback)
     /\ \A f \in DOMAIN feedback : feedback'[f] = feedback[f]]_vars

\* two feedbacks with different texts were stored for the same Video of a
\* client's order, after the override and the order's creation
C22_Witness ==
  /\ Len(feedback) = 2
  /\ feedback[1].video_id = feedback[2].video_id
  /\ feedback[1].feedback_text # feedback[2].feedback_text
  /\ \E o \in DOMAIN orders : orders[o].user_id # NoId

\* C23: every Video row the batch pipeline inserts enters the table with
\* status queued, never already carrying a terminal status.
C23_InsertedAsQueued ==
  [][\A v \in DOMAIN videos' :
       v \notin DOMAIN videos => videos'[v].status = "queued"]_vars

\* a Video row of the pipeline exists, and it has never been anything but
\* terminal
C23_Witness ==
  \E o \in DOMAIN bg :
    /\ bg[o].pc = "mirror"
    /\ bg[o].vid \in DOMAIN videos
    /\ Terminal(videos[bg[o].vid].status)

\* C24: through generate_video no state is reached in which the row it was
\* given is processing while its runway_job_id is still null.
C24_ProcessingHasJobId ==
  (GvRow /\ gv.pc # "idle" /\ videos[gv.video_id].status = "processing")
    => videos[gv.video_id].runway_job_id # NULL

\* the row was marked processing and the request that creates the job has
\* not been sent yet
C24_Witness ==
  /\ GvRow
  /\ gv.pc = "submit"
  /\ videos[gv.video_id].status = "processing"
  /\ videos[gv.video_id].runway_job_id = NULL

\* C25: generate_video always terminates; it sends at most max_attempts
\* status requests for a job, and when max_attempts of them were answered
\* without SUCCEEDED or FAILED it marks the row it was given failed and raises
\* the timeout error.
C25_GenerateVideoTerminates ==
  /\ [](gv.polls <= max_attempts /\ gv.attempts <= gv.polls)
  /\ []((gv.pc = "poll" /\ gv.attempts = max_attempts) => ENABLED generate_video_timeout)
  /\ []((gv.pc = "raised" /\ gv.cause = "timeout") =>
          /\ gv.attempts = max_attempts
          /\ GvRow => videos[gv.video_id].status = "failed")
  /\ []((gv.pc = "raised" /\ gv.attempts = max_attempts) => gv.cause = "timeout")
  /\ (gv.pc \in {"submit", "poll"}) ~> (gv.pc \in {"returned", "raised"})

\* the call ended in the timeout after max_attempts unfinished answers, with
\* a row to mark
C25_Witness ==
  /\ gv.pc = "raised"
  /\ gv.cause = "timeout"
  /\ gv.polls = max_attempts
  /\ GvRow

\* C26: within one batch the files are taken one after the other in the order
\* they were sent: the position in the batch never goes back, a new image row
\* is the row of the file at the current position and is created only when
\* every earlier image of the order has its iteration-1 Video, so the ids of
\* the order's iteration-1 videos increase with the ids of its images.
C26_SequentialInSubmissionOrder ==
  /\ [][\A o \in DOMAIN bg :
          /\ bg'[o].i >= bg[o].i
          /\ \A m \in DOMAIN images' :
               (m \notin DOMAIN images /\ images'[m].order_id = o) =>
                 /\ bg[o].i \in DOMAIN bg[o].files
                 /\ images'[m].filename = bg[o].files[bg[o].i]
                 /\ \A m0 \in ImagesOfOrder(o) : FirstVideos(m0) # {}]_vars
  /\ [](\A m1, m2 \in DOMAIN images :
          (images[m1].order_id = images[m2].order_id /\ m1 < m2) =>
            \A v1 \in FirstVideos(m1), v2 \in FirstVideos(m2) : v1 < v2)

\* a batch of two different files is done, each file with its image and its
\* iteration-1 Video
C26_Witness ==
  \E o \in DOMAIN bg :
    /\ bg[o].pc = "done"
    /\ Len(bg[o].files) = 2
    /\ bg[o].files[1] # bg[o].files[2]
    /\ Cardinality(ImagesOfOrder(o)) = 2
    /\ \A m \in ImagesOfOrder(o) : FirstVideos(m) # {}

\* C27: when the file at the task's position cannot be opened, the task's
\* next step creates and changes no row and moves to the next file; the task
\* is done only when it has walked the whole batch.
C27_UnreadableFileSkipped ==
  /\ [][\A o \in DOMAIN bg :
          (/\ bg[o].pc = "loop"
           /\ bg[o].i <= Len(bg[o].files)
           /\ ~Opens(bg[o].files[bg[o].i])
           /\ bg'[o] # bg[o]) =>
            /\ tables' = tables
            /\ bg'[o].pc = "loop"
            /\ bg'[o].i = bg[o].i + 1]_vars
  /\ [](\A o \in DOMAIN bg : bg[o].pc = "done" => bg[o].i = Len(bg[o].files) + 1)

\* a batch of two files is done: the first has no row, the second has its
\* image and its Video
C27_Witness ==
  \E o \in DOMAIN bg :
    /\ bg[o].pc = "done"
    /\ Len(bg[o].files) = 2
    /\ bg[o].files[1] # bg[o].files[2]
    /\ Cardinality(ImagesOfOrder(o)) = 1
    /\ \A m \in ImagesOfOrder(o) :
         images[m].filename = bg[o].files[2] /\ FirstVideos(m) # {}

\* C28: the prompt is on the image row before the generation call for the
\* image is made, and the image of a failed iteration-1 Video holds a non-null
\* prompt equal to the Video's prompt.
C28_PromptCommittedBeforeGeneration ==
  /\ \A o \in DOMAIN bg :
       bg[o].pc \in {"generate", "mirror", "notify"} =>
         /\ images[bg[o].img].prompt # NULL
         /\ images[bg[o].img].prompt = bg[o].prompt_text
  /\ \A m \in DOMAIN images : \A v \in FirstVideos(m) :
       videos[v].status = "failed" =>
         /\ images[m].prompt # NULL
         /\ images[m].prompt = videos[v].prompt

\* a live generation failed and the batch went on: the image keeps the prompt
\* its failed Video carries
C28_Witness ==
  /\ ~USE_MOCK_RUNWAY
  /\ \E o \in DOMAIN bg :
       /\ bg[o].pc = "done"
       /\ \E m \in ImagesOfOrder(o) : \E v \in FirstVideos(m) :
            /\ videos[v].status = "failed"
            /\ images[m].prompt = videos[v].prompt
            /\ images[m].prompt # NULL

\* the video_created notifications about Video v
NotificationsOf(v) ==
  {n \in DOMAIN notifications :
     notifications[n].type = "video_created" /\ notifications[n].video_id = v}

C30_LiveSuccessNeedsStoredOutput ==
  ~USE_MOCK_RUNWAY =>
    /\ \A o \in DOMAIN bg :
         bg[o].pc = "generate" =>
           \A outcome \in ProviderOutcomes, transfer_ok \in BOOLEAN :
             LET r == GenerationResult(USE_MOCK_RUNWAY, bg[o].img, outcome, transfer_ok) IN
               /\ r.status = "succeeded" => (outcome = "output" /\ transfer_ok)
               /\ (outcome = "output" /\ ~transfer_ok) =>
                    (r.status = "failed" /\ r.video_url = NULL)
    /\ \A m \in DOMAIN images : \A v \in FirstVideos(m) :
         /\ videos[v].status = "succeeded" =>
              /\ videos[v].runway_job_id = "task"
              /\ videos[v].video_url =
                   "dropbox:///videos/video_" \o ToString(m) \o ".mp4"
         /\ videos[v].video_url = NULL => videos[v].status = "failed"

\* live mode: the provider produced an output for one image (the Video has
\* its job id) but the transfer failed, and the Video is stored failed
\* without a url; another Video of the batch succeeded
C30_Witness ==
  /\ ~USE_MOCK_RUNWAY
  /\ \E v \in DOMAIN videos :
       /\ videos[v].iteration = 1
       /\ videos[v].runway_job_id = "task"
       /\ videos[v].status = "failed"
       /\ videos[v].video_url = NULL
  /\ \E v \in DOMAIN videos :
       videos[v].iteration = 1 /\ videos[v].status = "succeeded"

\* C31: a call of admin_regenerate_video that answers 500 has created a Video
\* row that ends failed, and has left the image rows as they were.
C31_RegenerateFailureLeavesFailedRow ==
  [][(requests' # requests /\ response'.op = "admin_regenerate_video"
        /\ response'.code = 500) =>
       /\ Len(videos') = Len(videos) + 1
       /\ videos'[Len(videos')].status = "failed"
       /\ images' = images]_vars

\* the call answered 500 for an existing image whose file is on the server,
\* and the image has no Video row
C31_Witness ==
  /\ response.op = "admin_regenerate_video"
  /\ response.code = 500
  /\ \E m \in DOMAIN images : images[m].filename \in uploads /\ VideosOf(m) = {}

\* the statuses a request may name
AcceptedStatuses == {"pending", "queued", "processing", "completed", "succeeded", "failed"}

\* C32: in every reachable state, a status request whose status (trimmed,
\* lower-cased) is none of pending, queued, processing, completed, succeeded,
\* failed, the empty status included, answers 400, and one with an accepted
\* status for an unknown image answers 404; in both cases the videos table is
\* as before, also at the step of the handler itself.
C32_BadStatusRequestRejected ==
  /\ [](\A image_id \in 1..(Len(images) + 1), status \in StatusInputs :
          LET r == StatusUpdate(videos, image_id, status) IN
            /\ Lower(Strip(status)) \notin AcceptedStatuses =>
                 (r.code = 400 /\ r.videos = videos)
            /\ (Lower(Strip(status)) \in AcceptedStatuses /\ image_id \notin DOMAIN images) =>
                 (r.code = 404 /\ r.videos = videos))
  /\ [][(requests' # requests /\ response'.op = "admin_update_order_status"
           /\ response'.code \in {400, 404}) => videos' = videos]_vars

\* a status request was refused with 400 while Video rows exist
C32_Witness ==
  /\ response = [op |-> "admin_update_order_status", code |-> 400]
  /\ Len(videos) > 0

\* C33: from the moment a task has opened an image, the ratio it holds for the
\* generation is 1280:720 exactly when the image's width is at least its
\* height, and 720:1280 exactly when the width is smaller.
C33_RatioFollowsDimensions ==
  \A o \in DOMAIN bg :
    bg[o].pc \in {"prompt", "generate", "mirror", "notify"} =>
      LET size == Size(images[bg[o].img].content) IN
        /\ bg[o].ratio = "1280:720" <=> size.w >= size.h
        /\ bg[o].ratio = "720:1280" <=> size.w < size.h

\* live mode: the provider was called for a square image with the landscape
\* ratio and for a tall image with the portrait ratio
C33_Witness ==
  /\ ~USE_MOCK_RUNWAY
  /\ \E o \in DOMAIN bg :
       /\ bg[o].pc = "mirror"
       /\ images[bg[o].img].content = "square"
       /\ bg[o].ratio = "1280:720"
       /\ videos[bg[o].vid].runway_job_id = "task"
       /\ \E m \in ImagesOfOrder(o) : images[m].content = "tall" /\ FirstVideos(m) # {}

\* no background task is between its start and its end
Quiescent == \A o \in DOMAIN bg : bg[o].pc \in {"none", "done"} \cup RaisedPcs

C35_FeedbackAtomic ==
  [][(requests' # requests /\ response'.op = "submit_feedback") =>
       (Len(feedback') = Len(feedback) + 1
          <=> /\ Len(videos') = Len(videos) + 1
              /\ videos'[Len(videos')].parent_video_id = feedback'[Len(feedback')].video_id)]_vars

\* the call answered 500 and its Feedback row is stored, while no Video row
\* has a parent
C35_Witness ==
  /\ response = [op |-> "submit_feedback", code |-> 500]
  /\ Len(feedback) > 0
  /\ \A v \in DOMAIN videos : videos[v].parent_video_id = NoId

C37_SucceededHasOutput ==
  \A v \in DOMAIN videos :
    videos[v].status = "succeeded" =>
      (videos[v].video_url # NULL \/ videos[v].video_path # NULL)

\* mock mode: the pipeline has stored a succeeded Video without url and path
C37_Witness ==
  /\ USE_MOCK_RUNWAY
  /\ \E v \in DOMAIN videos :
       /\ videos[v].status = "succeeded"
       /\ videos[v].runway_job_id = "mock-job"
       /\ videos[v].video_url = NULL
       /\ videos[v].video_path = NULL

\* the positions of its batch a task has still to read from the disk: all of
\* them before the loop starts, the current one and the later ones after
Pending(o) ==
  IF bg[o].pc \in {"none", "done"} \cup RaisedPcs THEN {}
  ELSE {j \in DOMAIN bg[o].files : j >= bg[o].i}

\* C38: uploads do not interfere: no step replaces the bytes of a file that
\* the task of an existing order has still to read, so what a task reads and
\* stores for an image is what its own order uploaded.
C38_UploadsDoNotInterfere ==
  [][\A o \in DOMAIN bg : \A j \in Pending(o) :
       disk'[bg[o].files[j]] = disk[bg[o].files[j]]]_vars

\* the task of the first order is done and has stored an image from a file
\* whose name a later order has written too; the row holds what the disk holds
C38_Witness ==
  \E o1, o2 \in DOMAIN bg :
    /\ o1 < o2
    /\ bg[o1].pc = "done"
    /\ bg[o2].pc = "scheduled"
    /\ \E m \in ImagesOfOrder(o1) : \E k \in DOMAIN bg[o2].files :
         /\ images[m].filename = bg[o2].files[k]
         /\ images[m].content = disk[images[m].filename]

\* ------------------------------------------------------------- order listings
\* the rows the join with latest_video_subq yields for image m: its rows of the
\* highest iteration (admin.py:90-109, Client.py:263-283)
LatestRows(m) ==
  {v \in VideosOf(m) : \A w \in VideosOf(m) : videos[w].iteration <= videos[v].iteration}

\* image_id_to_video = {v.image_id: v for v in latest_videos}: one row per image
\* that has a Video; among rows of equal iteration the query's row order, which
\* no ORDER BY fixes, decides which one stays
image_id_to_video(o) ==
  {pick \in [{m \in DOMAIN images : images[m].order_id = o /\ VideosOf(m) # {}}
               -> DOMAIN videos] :
     \A m \in DOMAIN pick : pick[m] \in LatestRows(m)}

\* admin.py:115-120
admin_order_status(pick) ==
  IF \A m \in DOMAIN pick : videos[pick[m]].status = "completed" THEN "completed"
  ELSE IF \E m \in DOMAIN pick : videos[pick[m]].status = "processing" THEN "processing"
  ELSE "submitted"

\* Client.py:288-293
client_order_status(pick) ==
  IF \A m \in DOMAIN pick : videos[pick[m]].status = "succeeded" THEN "completed"
  ELSE IF \E m \in DOMAIN pick : videos[pick[m]].status = "processing" THEN "processing"
  ELSE "submitted"

\* GET /Admin/order_management: every order with its status
get_order_status ==
  /\ \E picks \in [DOMAIN orders -> UNION {image_id_to_video(o) : o \in DOMAIN orders}] :
       /\ \A o \in DOMAIN orders : picks[o] \in image_id_to_video(o)
       /\ response' = [op |-> "get_order_status", code |-> 200,
                       status |-> [o \in DOMAIN orders |-> admin_order_status(picks[o])]]
  /\ UNCHANGED <<USE_MOCK_RUNWAY, gv, disk, uploads, tables, bg, providerCalls, requests>>

\* GET /orders/status for the signed-in user: the user's orders with their
\* status; without orders HTTPException(status_code=44) (Client.py:260)
get_client_orders(user_id) ==
  /\ LET mine == {o \in DOMAIN orders : orders[o].user_id = user_id} IN
       IF mine = {}
       THEN response' = [op |-> "get_client_orders", code |-> 44]
       ELSE \E picks \in [mine -> UNION {image_id_to_video(o) : o \in mine}] :
              /\ \A o \in mine : picks[o] \in image_id_to_video(o)
              /\ response' = [op |-> "get_client_orders", code |-> 200,
                              status |-> [o \in mine |-> client_order_status(picks[o])]]
  /\ UNCHANGED <<USE_MOCK_RUNWAY, gv, disk, uploads, tables, bg, providerCalls, requests>>

\* the client's orders, the admin's changes to their videos, and both listings
ListingNext ==
  \/ \E user_id \in Users, package \in WorkflowPackages,
        names \in NameBatches(Filenames, MaxFiles) :
       create_new_order(user_id, package, names)
  \/ \E image_id \in 1..(Len(images) + 1), status \in StatusInputs :
       admin_update_order_status(image_id, status)
  \/ \E user_id \in Users, dropbox_ok \in BOOLEAN :
       admin_upload_final_video(user_id, dropbox_ok)
  \/ get_order_status
  \/ \E user_id \in Users : get_client_orders(user_id)

ListingSpec == Init /\ [][ListingNext]_vars

\* C39: for one and the same state of the tables, the admin listing and the
\* client listing give an order the same status, and give completed only
\* when every latest Video of the order's images is succeeded.
C39_ListingsAgree ==
  \A o \in DOMAIN orders : \A pick \in image_id_to_video(o) :
    /\ admin_order_status(pick) = client_order_status(pick)
    /\ admin_order_status(pick) = "completed" =>
         \A m \in DOMAIN pick : videos[LatestVideo(m)].status = "succeeded"

\* the admin listing has answered submitted for an order that the client
\* listing reports completed: every image of it has a succeeded latest Video
C39_Witness ==
  /\ response.op = "get_order_status"
  /\ \E o \in DOMAIN orders : \E pick \in image_id_to_video(o) :
       /\ DOMAIN pick # {}
       /\ response.status[o] = "submitted"
       /\ admin_order_status(pick) = "submitted"
       /\ client_order_status(pick) = "completed"
====
